---- MODULE Spec2Model ----
(***************************************************************************)
(* Model of the QEC Mini-Lab core (package qec): the Pauli commutation     *)
(* algebra, the GF(2) parity-check code of the 3-qubit bit-flip code, the  *)
(* lookup decoder, the binary symmetric channel and the Monte-Carlo        *)
(* logical-error-rate estimators.                                          *)
(*                                                                         *)
(* Conventions.                                                            *)
(*  - A numpy vector is a sequence of integers, a Python str a sequence of *)
(*    one-character strings.                                               *)
(*  - The outcome of a call is a record [exc, val]: exc = "none" and val   *)
(*    the returned value, or exc the name of the exception raised (val is  *)
(*    then the empty tuple: nothing is returned).                          *)
(*  - A probability p and a uniform draw u of rng.random() are numerators  *)
(*    over DrawDen: p = pn / DrawDen, u = k / DrawDen with 0 <= k <        *)
(*    DrawDen (a draw lies in [0, 1)).                                     *)
(*  - A rate errs / trials is the record [num |-> errs, den |-> trials];   *)
(*    [num |-> 0, den |-> 0] is the nan numpy returns for the mean of an   *)
(*    empty array.                                                         *)
(***************************************************************************)
EXTENDS Integers, Sequences, FiniteSets, TLC

VARIABLES
    lut,    \* the module-level table _BITFLIP_LUT: syndrome -> correction
    call,   \* the call in progress: its name (op) and arguments, or Idle
    ret,    \* the outcome of that call
    prev    \* a sampling call whose arguments, draws and outcome the caller kept

vars == <<lut, call, ret, prev>>

\* ------------------------------------------------------------------ bounds

\* Longest Pauli string handed to pauli_commutes / syndrome_from_pauli.
MaxPauliLen == 3
\* Longest generator list handed to syndrome_from_pauli.
MaxGens == 2
\* Longest binary vector handed to syndrome / decode_majority / the decoder.
MaxVecLen == 4
\* Largest repetition-code length n of an estimator call.
MaxN == 3
\* Largest trial count of an estimator call.
MaxTrials == 2
\* Resolution of the probability grid: p and the draws are multiples of 1/DrawDen.
DrawDen == 2
\* Most uniform draws one estimator call may consume (trials * n).
MaxDraws == 6
\* Most table bits a caller's in-place writes may leave changed.
MaxWrites == 1
\* Most full batches of a simulate_repetition call (trials reach
\* MaxBatches * BatchCap + 1).
MaxBatches == 2

\* ----------------------------------------------------------- call outcomes

Return(v) == [exc |-> "none", val |-> v]

Raise(e) == [exc |-> e, val |-> <<>>]

\* ------------------------------------------------------------- input sets

Bit == {0, 1}

BitVecs(n) == [1..n -> Bit]

BitVecsUpTo(k) == UNION {BitVecs(n) : n \in 0..k}

Pauli == {"I", "X", "Y", "Z"}

PauliStrs(n) == [1..n -> Pauli]

PauliStrsUpTo(k) == UNION {PauliStrs(n) : n \in 0..k}

SeqsUpTo(S, k) == UNION {[1..n -> S] : n \in 0..k}

\* ------------------------------------------------------------ numpy helpers

RECURSIVE SumFrom(_, _)
\* v[i] + ... + v[Len(v)]
SumFrom(v, i) == IF i > Len(v) THEN 0 ELSE v[i] + SumFrom(v, i + 1)

\* ndarray.sum()
Sum(v) == SumFrom(v, 1)

RECURSIVE DotFrom(_, _, _)
DotFrom(row, v, i) ==
    IF i > Len(row) THEN 0 ELSE row[i] * v[i] + DotFrom(row, v, i + 1)

\* (a + b) % 2 of two equal-length vectors, a fresh array
AddMod2(a, b) == [i \in 1..Len(a) |-> (a[i] + b[i]) % 2]

\* --------------------------------------------------------- qec/stabilizers

\* The per-site anticommute table: a set of frozensets, so the six literals
\* of the source are three unordered pairs.
_ANTI == {{"X", "Z"}, {"Z", "X"}, {"X", "Y"}, {"Y", "X"}, {"Y", "Z"}, {"Z", "Y"}}

Min(a, b) == IF a < b THEN a ELSE b

RECURSIVE AntiLoop(_, _, _, _)
\* The for loop over zip(P, Q): zip stops at the shorter string.
AntiLoop(P, Q, i, anti) ==
    IF i > Min(Len(P), Len(Q)) THEN anti
    ELSE IF P[i] = "I" \/ Q[i] = "I" \/ P[i] = Q[i]
         THEN AntiLoop(P, Q, i + 1, anti)
         ELSE IF {P[i], Q[i]} \in _ANTI
              THEN AntiLoop(P, Q, i + 1, anti + 1)
              ELSE AntiLoop(P, Q, i + 1, anti)

RECURSIVE AntiLoop_ordered(_, _, _, _)
\* The loop with the table kept as ordered pairs in one orientation only.
AntiLoop_ordered(P, Q, i, anti) ==
    IF i > Min(Len(P), Len(Q)) THEN anti
    ELSE IF P[i] = "I" \/ Q[i] = "I" \/ P[i] = Q[i]
         THEN AntiLoop_ordered(P, Q, i + 1, anti)
         ELSE IF <<P[i], Q[i]>> \in {<<"X", "Z">>, <<"X", "Y">>, <<"Y", "Z">>}
              THEN AntiLoop_ordered(P, Q, i + 1, anti + 1)
              ELSE AntiLoop_ordered(P, Q, i + 1, anti)

\* A plausible slip: the table holding tuples, one orientation per pair.
pauli_commutes_ordered(P, Q) ==
    IF Len(P) # Len(Q) THEN Raise("PauliLengthError")
    ELSE Return((AntiLoop_ordered(P, Q, 1, 0) % 2) = 0)

RECURSIVE AntiLoop_noeq(_, _, _, _)
\* The loop with the "a == b" pass forgotten: every pair of non-I symbols counts.
AntiLoop_noeq(P, Q, i, anti) ==
    IF i > Min(Len(P), Len(Q)) THEN anti
    ELSE IF P[i] = "I" \/ Q[i] = "I"
         THEN AntiLoop_noeq(P, Q, i + 1, anti)
         ELSE AntiLoop_noeq(P, Q, i + 1, anti + 1)

\* A plausible slip: equal symbols counted as anticommuting.
pauli_commutes_noeq(P, Q) ==
    IF Len(P) # Len(Q) THEN Raise("PauliLengthError")
    ELSE Return((AntiLoop_noeq(P, Q, 1, 0) % 2) = 0)

\* A plausible slip: the length check dropped, zip silently truncating.
pauli_commutes_nocheck(P, Q) == Return((AntiLoop(P, Q, 1, 0) % 2) = 0)

\* A plausible slip: any anticommuting site makes the strings anticommute.
pauli_commutes_any(P, Q) ==
    IF Len(P) # Len(Q) THEN Raise("PauliLengthError")
    ELSE Return(AntiLoop(P, Q, 1, 0) = 0)

pauli_commutes(P, Q) ==
    IF Len(P) # Len(Q) THEN Raise("PauliLengthError")
    ELSE Return((AntiLoop(P, Q, 1, 0) % 2) = 0)

RECURSIVE SyndromeComprehension(_, _, _, _)
\* The list comprehension, generator by generator: an exception raised by
\* pauli_commutes leaves the comprehension and no list is built.
SyndromeComprehension(error, generators, i, acc) ==
    IF i > Len(generators) THEN Return(acc)
    ELSE LET r == pauli_commutes(error, generators[i]) IN
         IF r.exc # "none" THEN r
         ELSE SyndromeComprehension(error, generators, i + 1,
                                    Append(acc, IF r.val THEN 0 ELSE 1))

\* A plausible slip: the two branches of the conditional swapped.
syndrome_from_pauli_swapped(error, generators) ==
    LET r == SyndromeComprehension(error, generators, 1, <<>>) IN
    IF r.exc # "none" THEN r
    ELSE Return([i \in 1..Len(r.val) |-> 1 - r.val[i]])

syndrome_from_pauli(error, generators) ==
    SyndromeComprehension(error, generators, 1, <<>>)

\* -------------------------------------------------------------- qec/codes

\* A plausible slip: the raw product, the reduction mod 2 forgotten.
ParityCheck_syndrome_nomod(S, e_bits) ==
    IF Len(e_bits) # Len(S[1]) THEN Raise("ValueError")
    ELSE Return([i \in 1..Len(S) |-> DotFrom(S[i], e_bits, 1)])

\* A plausible slip: a vector of the wrong length answered with a zero
\* syndrome instead of an error.
ParityCheck_syndrome_noshape(S, e_bits) ==
    IF Len(e_bits) # Len(S[1]) THEN Return([i \in 1..Len(S) |-> 0])
    ELSE Return([i \in 1..Len(S) |-> DotFrom(S[i], e_bits, 1) % 2])

\* (S @ e_bits) % 2; numpy's matmul raises ValueError on a vector whose
\* length is not the column count of S.
ParityCheck_syndrome(S, e_bits) ==
    IF Len(e_bits) # Len(S[1]) THEN Raise("ValueError")
    ELSE Return([i \in 1..Len(S) |-> DotFrom(S[i], e_bits, 1) % 2])

\* A plausible slip: the second check on qubits (1,3) instead of (2,3).
ThreeQubitBitFlip_wrongrow == [checks |-> <<<<1, 1, 0>>, <<1, 0, 1>>>>]

\* ThreeQubitBitFlip(): the frozen dataclass with its default checks.
ThreeQubitBitFlip == [checks |-> <<<<1, 1, 0>>, <<0, 1, 1>>>>]

\* A plausible slip: the distance of the detection-only 2-qubit code.
ThreeQubitBitFlip_distance_off == 3 - 1

\* The distance property.
ThreeQubitBitFlip_distance == 3

\* A plausible slip: a true majority threshold taken as >= 1.
decode_majority_ge(word_bits) == IF Sum(word_bits) >= 1 THEN 1 ELSE 0

decode_majority(word_bits) == IF Sum(word_bits) > 1 THEN 1 ELSE 0

ThreeQubitBitFlip_syndrome(code, e_bits) ==
    ParityCheck_syndrome(code.checks, e_bits)

\* ------------------------------------------------------------ qec/decoders

\* A plausible slip: the corrections of syndromes (1,1) and (0,1) exchanged.
_BITFLIP_LUT_exchanged ==
    (<<0, 0>> :> <<0, 0, 0>>) @@ (<<1, 0>> :> <<1, 0, 0>>) @@
    (<<1, 1>> :> <<0, 0, 1>>) @@ (<<0, 1>> :> <<0, 1, 0>>)

_BITFLIP_LUT ==
    (<<0, 0>> :> <<0, 0, 0>>) @@ (<<1, 0>> :> <<1, 0, 0>>) @@
    (<<1, 1>> :> <<0, 1, 0>>) @@ (<<0, 1>> :> <<0, 0, 1>>)

\* A plausible slip: the syndrome returned with its two bits in reverse order.
lookup_decoder_3q_reversed(code, e_bits) ==
    LET s == ThreeQubitBitFlip_syndrome(code, e_bits) IN
    IF s.exc # "none" THEN s
    ELSE IF s.val \notin DOMAIN lut THEN Raise("KeyError")
    ELSE Return([syn |-> <<s.val[2], s.val[1]>>, corr |-> lut[s.val]])

\* syn = tuple(code.syndrome(e_bits).tolist()); corr = _BITFLIP_LUT[syn]
lookup_decoder_3q(code, e_bits) ==
    LET s == ThreeQubitBitFlip_syndrome(code, e_bits) IN
    IF s.exc # "none" THEN s
    ELSE IF s.val \notin DOMAIN lut THEN Raise("KeyError")
    ELSE Return([syn |-> s.val, corr |-> lut[s.val]])

\* -------------------------------------------------------- qec/error_models

\* A plausible slip: the comparison taken as <=, so a draw of 0.0 flips at p = 0.
bsc_flip_mask_le(n, p, draws) == [i \in 1..n |-> IF draws[i] <= p THEN 1 ELSE 0]

\* (rng.random(n) < p).astype(int), draws the n values rng.random(n) returns.
bsc_flip_mask(n, p, draws) == [i \in 1..n |-> IF draws[i] < p THEN 1 ELSE 0]

\* A plausible slip: one row of draws reused for every row of the batch.
bsc_flip_mask_size_onerow(n, p, size, draws) ==
    [t \in 1..size |-> [i \in 1..n |-> IF draws[i] < p THEN 1 ELSE 0]]

\* (rng.random((size, n)) < p).astype(int), the branch taken when size is
\* given: draws are the size * n values of rng.random((size, n)), row by row.
bsc_flip_mask_size(n, p, size, draws) ==
    [t \in 1..size |-> [i \in 1..n |-> IF draws[(t - 1) * n + i] < p THEN 1 ELSE 0]]

\* ----------------------------------------------------------- qec/analytics

\* The values rng.random() can return, as numerators over DrawDen.
Draws == 0..(DrawDen - 1)

\* The probabilities a caller can pass (nothing in the code restricts p to
\* [0, 1]): numerators over DrawDen from below 0 to above 1.
PGrid == (0 - 1)..(DrawDen + 1)

\* The draws of rng.random((trials, n)), row t of the matrix.
Row(draws, n, t) == [i \in 1..n |-> draws[(t - 1) * n + i]]

RECURSIVE DecodedSum(_, _, _, _, _)
\* decoded.sum() over rows t..trials, decoded = (flips.sum(axis=1) > n / 2).
DecodedSum(n, p, trials, draws, t) ==
    IF t > trials THEN 0
    ELSE LET flips == [i \in 1..n |-> IF Row(draws, n, t)[i] < p THEN 1 ELSE 0]
         IN  (IF 2 * Sum(flips) > n THEN 1 ELSE 0)
             + DecodedSum(n, p, trials, draws, t + 1)

RECURSIVE FlipSum(_, _, _, _, _)
\* flips.sum() over rows t..trials.
FlipSum(n, p, trials, draws, t) ==
    IF t > trials THEN 0
    ELSE Sum([i \in 1..n |-> IF Row(draws, n, t)[i] < p THEN 1 ELSE 0])
         + FlipSum(n, p, trials, draws, t + 1)

\* A plausible slip: the majority step forgotten, the row sums averaged.
repetition_mc_error_rowsums(n, p, trials, draws) ==
    IF trials = 0 THEN Return([num |-> 0, den |-> 0])
    ELSE Return([num |-> FlipSum(n, p, trials, draws, 1), den |-> trials])

RECURSIVE DecodedSum_ge(_, _, _, _, _)
\* decoded.sum() with the comparison taken as >=.
DecodedSum_ge(n, p, trials, draws, t) ==
    IF t > trials THEN 0
    ELSE LET flips == [i \in 1..n |-> IF Row(draws, n, t)[i] < p THEN 1 ELSE 0]
         IN  (IF 2 * Sum(flips) >= n THEN 1 ELSE 0)
             + DecodedSum_ge(n, p, trials, draws, t + 1)

\* A plausible slip: a tie counted as a logical error.
repetition_mc_error_tie(n, p, trials, draws) ==
    IF trials = 0 THEN Return([num |-> 0, den |-> 0])
    ELSE Return([num |-> DecodedSum_ge(n, p, trials, draws, 1), den |-> trials])

\* float(decoded.mean()): the mean of an empty array is nan.
repetition_mc_error(n, p, trials, draws) ==
    IF trials = 0 THEN Return([num |-> 0, den |-> 0])
    ELSE Return([num |-> DecodedSum(n, p, trials, draws, 1), den |-> trials])

RECURSIVE BitflipLoop(_, _, _, _, _, _)
\* for _ in range(trials) of bitflip_mc_error, from trial t with errs so far.
BitflipLoop(code, p, trials, draws, t, errs) ==
    IF t > trials THEN Return(errs)
    ELSE LET e == bsc_flip_mask(3, p, Row(draws, 3, t))
             d == lookup_decoder_3q(code, e)
         IN  IF d.exc # "none" THEN d
             ELSE LET post == AddMod2(e, d.val.corr)
                  IN  BitflipLoop(code, p, trials, draws, t + 1,
                          errs + (IF decode_majority(post) = 1 THEN 1 ELSE 0))

\* A plausible slip: errs kept at module level and not reset, so a call starts
\* from the count the kept call ended with.
bitflip_mc_error_carry(p, trials, draws) ==
    LET errs0 == IF prev.call.op = "bitflip_mc_error" /\ prev.ret.exc = "none"
                 THEN prev.ret.val.num ELSE 0
        r == BitflipLoop(ThreeQubitBitFlip, p, trials, draws, 1, errs0) IN
    IF r.exc # "none" THEN r
    ELSE IF trials = 0 THEN Raise("ZeroDivisionError")
    ELSE Return([num |-> r.val, den |-> trials])

\* errs / trials: Python's true division raises ZeroDivisionError on 0.
bitflip_mc_error(p, trials, draws) ==
    LET r == BitflipLoop(ThreeQubitBitFlip, p, trials, draws, 1, 0) IN
    IF r.exc # "none" THEN r
    ELSE IF trials = 0 THEN Raise("ZeroDivisionError")
    ELSE Return([num |-> r.val, den |-> trials])

RECURSIVE PhaseflipLoop(_, _, _, _, _, _)
\* for _ in range(trials) of phaseflip_mc_error, from trial t with errs so far.
PhaseflipLoop(code, p, trials, draws, t, errs) ==
    IF t > trials THEN Return(errs)
    ELSE LET eZ == bsc_flip_mask(3, p, Row(draws, 3, t))
             d == lookup_decoder_3q(code, eZ)
         IN  IF d.exc # "none" THEN d
             ELSE LET post == AddMod2(eZ, d.val.corr)
                  IN  PhaseflipLoop(code, p, trials, draws, t + 1,
                          errs + (IF Sum(post) > 1 THEN 1 ELSE 0))

\* A plausible slip: the successes counted instead of the failures.
phaseflip_mc_error_inverted(p, trials, draws) ==
    LET r == PhaseflipLoop(ThreeQubitBitFlip, p, trials, draws, 1, 0) IN
    IF r.exc # "none" THEN r
    ELSE IF trials = 0 THEN Raise("ZeroDivisionError")
    ELSE Return([num |-> trials - r.val, den |-> trials])

phaseflip_mc_error(p, trials, draws) ==
    LET r == PhaseflipLoop(ThreeQubitBitFlip, p, trials, draws, 1, 0) IN
    IF r.exc # "none" THEN r
    ELSE IF trials = 0 THEN Raise("ZeroDivisionError")
    ELSE Return([num |-> r.val, den |-> trials])

\* ------------------------------------------------------------------ pages

\* The generator presets of the Stabilizer Playground, with a mixed-axis
\* generator and a shorter one beside them.
GeneratorPool ==
    { <<"Z", "Z", "I">>, <<"I", "Z", "Z">>, <<"X", "X", "I">>, <<"I", "X", "X">>,
      <<"X", "Y", "Z">>, <<"Z", "Z">> }

\* --------------------------------------------------------------- the system

\* No call in progress and no result held: the core keeps nothing between
\* calls but the module-level table.
Idle == [op |-> "idle"]

\* Nothing kept yet.
NoPrev == [call |-> Idle, ret |-> Return(<<>>)]

Init ==
    /\ lut = _BITFLIP_LUT
    /\ call = Idle
    /\ ret = Return(<<>>)
    /\ prev = NoPrev

PauliCommutesCall ==
    /\ call = Idle
    /\ \E P \in PauliStrsUpTo(MaxPauliLen), Q \in PauliStrsUpTo(MaxPauliLen) :
        /\ call' = [op |-> "pauli_commutes", P |-> P, Q |-> Q]
        /\ ret' = pauli_commutes(P, Q)
    /\ UNCHANGED <<lut, prev>>

SyndromeFromPauliCall ==
    /\ call = Idle
    /\ \E error \in PauliStrsUpTo(MaxPauliLen),
          generators \in SeqsUpTo(GeneratorPool, MaxGens) :
        /\ call' = [op |-> "syndrome_from_pauli", error |-> error,
                    generators |-> generators]
        /\ ret' = syndrome_from_pauli(error, generators)
    /\ UNCHANGED <<lut, prev>>

SyndromeCall ==
    /\ call = Idle
    /\ \E e_bits \in BitVecsUpTo(MaxVecLen) :
        /\ call' = [op |-> "syndrome", e_bits |-> e_bits]
        /\ ret' = ThreeQubitBitFlip_syndrome(ThreeQubitBitFlip, e_bits)
    /\ UNCHANGED <<lut, prev>>

DecodeMajorityCall ==
    /\ call = Idle
    /\ \E word_bits \in BitVecsUpTo(MaxVecLen) :
        /\ call' = [op |-> "decode_majority", word_bits |-> word_bits]
        /\ ret' = Return(decode_majority(word_bits))
    /\ UNCHANGED <<lut, prev>>

LookupDecoderCall ==
    /\ call = Idle
    /\ \E e_bits \in BitVecsUpTo(MaxVecLen) :
        /\ call' = [op |-> "lookup_decoder_3q", e_bits |-> e_bits]
        /\ ret' = lookup_decoder_3q(ThreeQubitBitFlip, e_bits)
    /\ UNCHANGED <<lut, prev>>

\* bsc_flip_mask(n, p, rng=rng) with size left None.
BscFlipMaskCall ==
    /\ call = Idle
    /\ \E n \in 0..MaxN, p \in PGrid :
        \E draws \in [1..n -> Draws] :
            /\ call' = [op |-> "bsc_flip_mask", n |-> n, p |-> p, draws |-> draws]
            /\ ret' = Return(bsc_flip_mask(n, p, draws))
    /\ UNCHANGED <<lut, prev>>

\* bsc_flip_mask(n, p, size=k, rng=rng): a batch of k masks.
BscFlipMaskSizeCall ==
    /\ call = Idle
    /\ \E n \in 0..MaxN, size \in 0..MaxTrials, p \in PGrid :
        /\ size * n <= MaxDraws
        /\ \E draws \in [1..(size * n) -> Draws] :
            /\ call' = [op |-> "bsc_flip_mask_size", n |-> n, p |-> p,
                        size |-> size, draws |-> draws]
            /\ ret' = Return(bsc_flip_mask_size(n, p, size, draws))
    /\ UNCHANGED <<lut, prev>>

DistanceCall ==
    /\ call = Idle
    /\ call' = [op |-> "distance"]
    /\ ret' = Return(ThreeQubitBitFlip_distance)
    /\ UNCHANGED <<lut, prev>>

\* The "Run one shot" button of the 3-qubit bit-flip page: e is the forced
\* single-qubit vector or a sampled mask, so any vector of {0,1}^3; the
\* result is the dict the page keeps of the shot.
RunOneShot ==
    /\ call = Idle
    /\ \E e \in BitVecs(3) :
        LET d == lookup_decoder_3q(ThreeQubitBitFlip, e)
            post == AddMod2(e, d.val.corr)
            decoded_bit == decode_majority(post)
        IN  /\ d.exc = "none"
            /\ call' = [op |-> "run_one_shot", e |-> e]
            /\ ret' = Return([e |-> e, syn |-> d.val.syn, corr |-> d.val.corr,
                              post |-> post, decoded_bit |-> decoded_bit])
    /\ UNCHANGED <<lut, prev>>

RepetitionMcErrorCall ==
    /\ call = Idle
    /\ \E n \in 0..MaxN, trials \in 0..MaxTrials, p \in PGrid :
        /\ trials * n <= MaxDraws
        /\ \E draws \in [1..(trials * n) -> Draws] :
            /\ call' = [op |-> "repetition_mc_error", n |-> n, p |-> p,
                        trials |-> trials, draws |-> draws]
            /\ ret' = repetition_mc_error(n, p, trials, draws)
    /\ UNCHANGED <<lut, prev>>

BitflipMcErrorCall ==
    /\ call = Idle
    /\ \E trials \in 0..MaxTrials, p \in PGrid :
        /\ trials * 3 <= MaxDraws
        /\ \E draws \in [1..(trials * 3) -> Draws] :
            /\ call' = [op |-> "bitflip_mc_error", p |-> p, trials |-> trials,
                        draws |-> draws]
            /\ ret' = bitflip_mc_error(p, trials, draws)
    /\ UNCHANGED <<lut, prev>>

PhaseflipMcErrorCall ==
    /\ call = Idle
    /\ \E trials \in 0..MaxTrials, p \in PGrid :
        /\ trials * 3 <= MaxDraws
        /\ \E draws \in [1..(trials * 3) -> Draws] :
            /\ call' = [op |-> "phaseflip_mc_error", p |-> p, trials |-> trials,
                        draws |-> draws]
            /\ ret' = phaseflip_mc_error(p, trials, draws)
    /\ UNCHANGED <<lut, prev>>

\* The caller is done with the result of the last call: nothing of it stays
\* in the core.
Discard ==
    /\ call # Idle
    /\ call' = Idle
    /\ ret' = Return(<<>>)
    /\ UNCHANGED <<lut, prev>>

Next ==
    \/ DecodeMajorityCall
    \/ DistanceCall
    \/ BscFlipMaskCall
    \/ BscFlipMaskSizeCall
    \/ SyndromeCall
    \/ LookupDecoderCall
    \/ RunOneShot
    \/ PauliCommutesCall
    \/ SyndromeFromPauliCall
    \/ RepetitionMcErrorCall
    \/ BitflipMcErrorCall
    \/ PhaseflipMcErrorCall
    \/ Discard

Spec == Init /\ [][Next]_vars

\* ------------------------------------------- a sampling call made twice
\* The pages call a sampler or an estimator each time their button is
\* pressed, with other calls in between.  Here the caller keeps one such call
\* (arguments, draws, outcome), makes other calls, and then makes the kept call
\* again with the same arguments and a random source that yields the same
\* draws.

SamplingOps ==
    {"bsc_flip_mask", "repetition_mc_error", "bitflip_mc_error", "phaseflip_mc_error"}

\* The body of the sampling function c names, run on c's arguments and draws
\* in the current state.
SamplingBody(c) ==
    CASE c.op = "bsc_flip_mask" -> Return(bsc_flip_mask(c.n, c.p, c.draws))
      [] c.op = "repetition_mc_error" ->
            repetition_mc_error(c.n, c.p, c.trials, c.draws)
      [] c.op = "bitflip_mc_error" -> bitflip_mc_error(c.p, c.trials, c.draws)
      [] c.op = "phaseflip_mc_error" -> phaseflip_mc_error(c.p, c.trials, c.draws)

FirstRun ==
    /\ prev = NoPrev
    /\ \/ RepetitionMcErrorCall
       \/ BitflipMcErrorCall
       \/ PhaseflipMcErrorCall
       \/ BscFlipMaskCall

\* rate = bitflip_mc_error(p, trials): the caller holds on to the outcome.
Remember ==
    /\ prev = NoPrev
    /\ call.op \in SamplingOps
    /\ prev' = [call |-> call, ret |-> ret]
    /\ call' = Idle
    /\ ret' = Return(<<>>)
    /\ UNCHANGED lut

\* Calls made between the two runs: the one-shot pipeline, which reads the
\* table through lookup_decoder_3q, a direct decoder call, and letting go of
\* a result.
Between ==
    /\ prev # NoPrev
    /\ \/ RunOneShot
       \/ LookupDecoderCall
       \/ Discard

\* The kept call again: same arguments, same draws.
Rerun ==
    /\ prev # NoPrev
    /\ call = Idle
    /\ call' = prev.call
    /\ ret' = SamplingBody(prev.call)
    /\ UNCHANGED <<lut, prev>>

NextSampling ==
    \/ FirstRun
    \/ Remember
    \/ Between
    \/ Rerun

SpecSampling == Init /\ [][NextSampling]_vars

\* ------------------------------------ a caller writing into returned values
\* lookup_decoder_3q returns np.array(syn), a fresh array, and corr, the very
\* array stored in _BITFLIP_LUT[syn]: a write into the returned corr is a
\* write into the table entry.

\* The table bits that differ from the table as constructed.
Damage == {ki \in (DOMAIN _BITFLIP_LUT) \X (1..3) : lut[ki[1]][ki[2]] # _BITFLIP_LUT[ki[1]][ki[2]]}

\* corr[i] = b on the correction the last lookup_decoder_3q call returned.
ModifyReturnedCorrection ==
    /\ call.op = "lookup_decoder_3q"
    /\ ret.exc = "none"
    /\ \E i \in 1..3, b \in Bit :
        LET key == ThreeQubitBitFlip_syndrome(ThreeQubitBitFlip, call.e_bits).val
            written == [lut EXCEPT ![key] = [@ EXCEPT ![i] = b]]
        IN  /\ lut' = written
            /\ Cardinality(Damage') <= MaxWrites
            /\ ret' = [ret EXCEPT !.val.corr = written[key]]
    /\ UNCHANGED <<call, prev>>

\* syn[i] = b on the syndrome the last lookup_decoder_3q call returned.
ModifyReturnedSyndrome ==
    /\ call.op = "lookup_decoder_3q"
    /\ ret.exc = "none"
    /\ \E i \in 1..2, b \in Bit :
        ret' = [ret EXCEPT !.val.syn = [@ EXCEPT ![i] = b]]
    /\ UNCHANGED <<lut, call, prev>>

NextAliased ==
    \/ LookupDecoderCall
    \/ ModifyReturnedCorrection
    \/ ModifyReturnedSyndrome
    \/ BitflipMcErrorCall
    \/ PhaseflipMcErrorCall
    \/ Discard

SpecAliased == Init /\ [][NextAliased]_vars

\* ------------------------------------------------ app.py simulate_repetition
\* The batched loop, one action per loop iteration; the locals of the call
\* (batch, remaining, errs) live in the call record, with the batch sizes and
\* the per-batch counts of decoded.sum() kept alongside.

\* The literal of batch = min(trials, 10000).
BatchCap == 10000

\* The trial counts a caller passes: around zero, around one batch, and around
\* each multiple of the batch size.
SimTrials ==
    {0 - 1, 0, 1, 2} \cup
    UNION {{k * BatchCap - 1, k * BatchCap, k * BatchCap + 1} : k \in 1..MaxBatches}

\* The values decoded.sum() can take for a batch of b rows of n flips: no
\* draw of [0,1) is below p <= 0, every draw is below p >= 1 (then ones = n
\* and n > n / 2 for n >= 1), and for 0 < p < 1 any number of rows can decode
\* to 1.
DecodedSums(b, n, p) ==
    IF n <= 0 \/ p <= 0 THEN {0}
    ELSE IF p >= DrawDen THEN {b}
    ELSE 0..b

\* The counts tried for one batch: none, one, all but one, all.
SampledCounts(b) == {0, 1, b - 1, b}

\* A plausible slip: the batch taken whole, without min(batch, remaining).
NextBatch_whole(batch, remaining) == batch

\* b = min(batch, remaining)
NextBatch(batch, remaining) == Min(batch, remaining)

\* simulate_repetition(n, p, trials) up to the first test of the while.
SimulateRepetitionCall ==
    /\ call = Idle
    /\ \E n \in 0..MaxN, p \in PGrid, trials \in SimTrials :
        call' = [op |-> "simulate_repetition", n |-> n, p |-> p, trials |-> trials,
                 pc |-> "while", errs |-> 0, batch |-> Min(trials, BatchCap),
                 remaining |-> trials, sizes |-> <<>>, counts |-> <<>>]
    /\ ret' = Return(<<>>)
    /\ UNCHANGED <<lut, prev>>

\* One iteration of while remaining > 0.
SimulateRepetitionBatch ==
    /\ call.op = "simulate_repetition"
    /\ call.pc = "while"
    /\ call.remaining > 0
    /\ LET b == NextBatch(call.batch, call.remaining) IN
        \E k \in SampledCounts(b) :
            /\ k \in DecodedSums(b, call.n, call.p)
            /\ call' = [call EXCEPT !.errs = @ + k,
                                    !.remaining = @ - b,
                                    !.sizes = Append(@, b),
                                    !.counts = Append(@, k)]
    /\ UNCHANGED <<lut, ret, prev>>

\* return errs / trials, once remaining > 0 fails.
SimulateRepetitionReturn ==
    /\ call.op = "simulate_repetition"
    /\ call.pc = "while"
    /\ ~(call.remaining > 0)
    /\ call' = [call EXCEPT !.pc = "done"]
    /\ ret' = IF call.trials = 0 THEN Raise("ZeroDivisionError")
              ELSE Return([num |-> call.errs, den |-> call.trials])
    /\ UNCHANGED <<lut, prev>>

\* The page shows the rate and the call is over.
SimulateRepetitionDone ==
    /\ call.op = "simulate_repetition"
    /\ call.pc = "done"
    /\ Discard

NextBatched ==
    \/ SimulateRepetitionCall
    \/ SimulateRepetitionBatch
    \/ SimulateRepetitionReturn
    \/ SimulateRepetitionDone

\* The call runs on one thread with nothing to wait for: a loop iteration or
\* the return that can be taken is taken.
SpecBatched ==
    /\ Init
    /\ [][NextBatched]_vars
    /\ WF_vars(SimulateRepetitionBatch)
    /\ WF_vars(SimulateRepetitionReturn)

\* ------------------------------------------------------- claim vocabulary

\* Number of entries of a binary vector that are 1.
Ones(v) == Cardinality({i \in 1..Len(v) : v[i] = 1})

\* The positions where both symbols are non-I and differ.
AntiSites(P, Q) == {i \in 1..Len(P) : P[i] # "I" /\ Q[i] # "I" /\ P[i] # Q[i]}

Xor(a, b) == IF a = b THEN 0 ELSE 1

SingleQubitErrors == {<<1, 0, 0>>, <<0, 1, 0>>, <<0, 0, 1>>}

TwoQubitErrors == {<<1, 1, 0>>, <<1, 0, 1>>, <<0, 1, 1>>}

\* The table as the specification prints it.
PrintedTable(syn) ==
    CASE syn = <<0, 0>> -> <<0, 0, 0>>
      [] syn = <<1, 0>> -> <<1, 0, 0>>
      [] syn = <<1, 1>> -> <<0, 1, 0>>
      [] syn = <<0, 1>> -> <<0, 0, 1>>

\* The Pauli string with symbol s where e is 1 and I elsewhere.
PauliOf(e, s) == [i \in 1..Len(e) |-> IF e[i] = 1 THEN s ELSE "I"]

BitFlipGens == << <<"Z", "Z", "I">>, <<"I", "Z", "Z">> >>

PhaseFlipGens == << <<"X", "X", "I">>, <<"I", "X", "X">> >>

Estimators == {"repetition_mc_error", "bitflip_mc_error", "phaseflip_mc_error"}

\* ------------------------------------------------------------------ claims

\* C1: for each single-qubit error vector e, lookup_decoder_3q returns a
\* correction equal to e, so the residual (e + correction) mod 2 is (0,0,0)
\* and decode_majority of the residual is 0; the one-shot pipeline built on
\* it shows the same.
C1_SingleErrorNeutralized ==
    /\ (call.op = "lookup_decoder_3q" /\ call.e_bits \in SingleQubitErrors) =>
          /\ ret.exc = "none"
          /\ ret.val.corr = call.e_bits
          /\ AddMod2(call.e_bits, ret.val.corr) = <<0, 0, 0>>
          /\ decode_majority(AddMod2(call.e_bits, ret.val.corr)) = 0
    /\ (call.op = "run_one_shot" /\ call.e \in SingleQubitErrors) =>
          /\ ret.val.corr = call.e
          /\ ret.val.post = <<0, 0, 0>>
          /\ ret.val.decoded_bit = 0

C1_Witness ==
    /\ call.op = "lookup_decoder_3q"
    /\ call.e_bits = <<0, 0, 1>>
    /\ ret.exc = "none"
    /\ ret.val.corr = <<0, 0, 1>>

\* C2: the table is exactly (0,0)->(0,0,0), (1,0)->(1,0,0), (1,1)->(0,1,0),
\* (0,1)->(0,0,1), and lookup_decoder_3q(code, e) returns the pair
\* (syndrome of e, table entry for that syndrome).
C2_LookupTable ==
    /\ DOMAIN lut = {<<0, 0>>, <<1, 0>>, <<1, 1>>, <<0, 1>>}
    /\ \A syn \in DOMAIN lut : lut[syn] = PrintedTable(syn)
    /\ (call.op = "lookup_decoder_3q" /\ Len(call.e_bits) = 3) =>
          LET e == call.e_bits
              syn == <<Xor(e[1], e[2]), Xor(e[2], e[3])>>
          IN  ret = Return([syn |-> syn, corr |-> PrintedTable(syn)])

C2_Witness ==
    /\ call.op = "lookup_decoder_3q"
    /\ call.e_bits = <<0, 1, 0>>
    /\ ret = Return([syn |-> <<1, 1>>, corr |-> <<0, 1, 0>>])

\* C3: for equal-length Pauli strings P, Q, pauli_commutes(P, Q) is true iff
\* the number of positions where both symbols are non-I and differ is even;
\* in particular commutes("XII","ZII") is false.
C3_CommutesIffEvenAnti ==
    /\ (call.op = "pauli_commutes" /\ Len(call.P) = Len(call.Q)) =>
          /\ ret.exc = "none"
          /\ ret.val = (Cardinality(AntiSites(call.P, call.Q)) % 2 = 0)
    /\ (call.op = "pauli_commutes" /\ call.P = <<"X", "I", "I">>
            /\ call.Q = <<"Z", "I", "I">>) => ret = Return(FALSE)

C3_Witness ==
    /\ call.op = "pauli_commutes"
    /\ call.P = <<"X", "Y", "I">>
    /\ call.Q = <<"Z", "Z", "I">>
    /\ ret = Return(TRUE)

\* C4: comparing Pauli strings of different lengths (pauli_commutes, or
\* syndrome_from_pauli with a generator whose length differs from the
\* error's) ends in PauliLengthError: no boolean and no partial bit list is
\* returned, nothing is padded or truncated.
C4_LengthMismatchRaises ==
    /\ (call.op = "pauli_commutes" /\ Len(call.P) # Len(call.Q)) =>
          ret = Raise("PauliLengthError")
    /\ (call.op = "syndrome_from_pauli"
            /\ \E i \in 1..Len(call.generators) :
                   Len(call.generators[i]) # Len(call.error)) =>
          ret = Raise("PauliLengthError")

C4_Witness ==
    /\ call.op = "pauli_commutes"
    /\ call.P = <<"X", "Y">>
    /\ call.Q = <<"X", "Y", "Z">>
    /\ ret.exc = "PauliLengthError"

\* C5: for an error and an ordered list of same-length generators,
\* syndrome_from_pauli returns a list of the same length and order whose
\* entry i is 0 if the error commutes with generator i and 1 otherwise;
\* syndrome_from_pauli("XII", ["ZZI","IZZ"]) = [1, 0].
C5_SyndromeFromPauli ==
    (call.op = "syndrome_from_pauli"
        /\ \A i \in 1..Len(call.generators) :
               Len(call.generators[i]) = Len(call.error)) =>
       /\ ret.exc = "none"
       /\ Len(ret.val) = Len(call.generators)
       /\ \A i \in 1..Len(call.generators) :
              ret.val[i] =
                  (IF Cardinality(AntiSites(call.error, call.generators[i])) % 2 = 0
                   THEN 0 ELSE 1)
       /\ (call.error = <<"X", "I", "I">> /\ call.generators = BitFlipGens) =>
              ret.val = <<1, 0>>

C5_Witness ==
    /\ call.op = "syndrome_from_pauli"
    /\ call.error = <<"X", "I", "I">>
    /\ call.generators = BitFlipGens
    /\ ret = Return(<<1, 0>>)

\* C6: on single-axis errors the Pauli syndrome agrees with the linear
\* syndrome: for every e in {0,1}^3, syndrome_from_pauli of the X-string of e
\* against [ZZI, IZZ], and of the Z-string of e against [XXI, IXX], equals
\* ThreeQubitBitFlip().syndrome(e).
C6_PauliAgreesWithLinear ==
    /\ \A e \in BitVecs(3) :
          /\ (call.op = "syndrome_from_pauli" /\ call.error = PauliOf(e, "X")
                  /\ call.generators = BitFlipGens) =>
                ret = ThreeQubitBitFlip_syndrome(ThreeQubitBitFlip, e)
          /\ (call.op = "syndrome_from_pauli" /\ call.error = PauliOf(e, "Z")
                  /\ call.generators = PhaseFlipGens) =>
                ret = ThreeQubitBitFlip_syndrome(ThreeQubitBitFlip, e)
    /\ (call.op = "syndrome" /\ Len(call.e_bits) = 3) =>
          /\ ret = syndrome_from_pauli(PauliOf(call.e_bits, "X"), BitFlipGens)
          /\ ret = syndrome_from_pauli(PauliOf(call.e_bits, "Z"), PhaseFlipGens)

C6_Witness ==
    /\ call.op = "syndrome_from_pauli"
    /\ call.error = <<"I", "Z", "Z">>
    /\ call.generators = PhaseFlipGens
    /\ ret = Return(<<1, 0>>)

\* C7: for every binary e = (e1,e2,e3), ThreeQubitBitFlip().syndrome(e) is
\* the product of the parity-check matrix [[1,1,0],[0,1,1]] with e reduced
\* mod 2, the 2-bit vector (e1 XOR e2, e2 XOR e3), one bit per check in row
\* order.
C7_LinearSyndrome ==
    /\ ThreeQubitBitFlip.checks = << <<1, 1, 0>>, <<0, 1, 1>> >>
    /\ (call.op = "syndrome" /\ Len(call.e_bits) = 3) =>
          ret = Return(<<Xor(call.e_bits[1], call.e_bits[2]),
                         Xor(call.e_bits[2], call.e_bits[3])>>)

C7_Witness ==
    /\ call.op = "syndrome"
    /\ call.e_bits = <<1, 1, 0>>
    /\ ret = Return(<<0, 1>>)

C9_TwoQubitErrorsMiscorrected ==
    /\ (call.op = "lookup_decoder_3q" /\ call.e_bits \in TwoQubitErrors) =>
          /\ ret.exc = "none"
          /\ ret.val.corr = [i \in 1..3 |-> 1 - call.e_bits[i]]
          /\ AddMod2(call.e_bits, ret.val.corr) = <<1, 1, 1>>
          /\ decode_majority(AddMod2(call.e_bits, ret.val.corr)) = 1
    /\ (call.op = "run_one_shot" /\ call.e \in TwoQubitErrors) =>
          /\ ret.val.corr = [i \in 1..3 |-> 1 - call.e[i]]
          /\ ret.val.post = <<1, 1, 1>>
          /\ ret.val.decoded_bit = 1

C9_Witness ==
    /\ call.op = "run_one_shot"
    /\ call.e = <<1, 0, 1>>
    /\ ret.val.corr = <<0, 1, 0>>
    /\ ret.val.post = <<1, 1, 1>>
    /\ ret.val.decoded_bit = 1

\* C10: with p = 0, for every trial count (of at least one trial; and every n
\* for the repetition code) the three estimators return exactly 0.0: no
\* sampled bit is 1, every syndrome is (0,0), every correction is (0,0,0)
\* and no trial is counted as a logical error.
C10_ZeroProbabilityZeroRate ==
    (call.op \in Estimators /\ call.p = 0 /\ call.trials >= 1) =>
       /\ ret = Return([num |-> 0, den |-> call.trials])
       /\ call.op # "repetition_mc_error" =>
              \A t \in 1..call.trials :
                  LET e == bsc_flip_mask(3, call.p, Row(call.draws, 3, t)) IN
                  /\ e = <<0, 0, 0>>
                  /\ lookup_decoder_3q(ThreeQubitBitFlip, e)
                         = Return([syn |-> <<0, 0>>, corr |-> <<0, 0, 0>>])

C10_Witness ==
    /\ call.op = "bitflip_mc_error"
    /\ call.p = 0
    /\ call.trials = 2
    /\ \A i \in 1..Len(call.draws) : call.draws[i] = 0
    /\ ret = Return([num |-> 0, den |-> 2])

\* C11: for all n, p and trials (at least one trial), the value returned by
\* repetition_mc_error lies in the closed interval [0.0, 1.0]; the same holds
\* for bitflip_mc_error and phaseflip_mc_error.
C11_RateWithinUnitInterval ==
    (call.op \in Estimators /\ call.trials >= 1) =>
       /\ ret.exc = "none"
       /\ ret.val.den > 0
       /\ 0 <= ret.val.num
       /\ ret.val.num <= ret.val.den

C11_Witness ==
    /\ call.op = "repetition_mc_error"
    /\ call.n = 3
    /\ call.p = 1
    /\ call.trials = 2
    /\ ret = Return([num |-> 1, den |-> 2])

\* C12: pauli_commutes is symmetric: for all equal-length Pauli strings P, Q,
\* pauli_commutes(P, Q) == pauli_commutes(Q, P) (with unequal lengths both
\* orders raise the same error).
C12_CommutesSymmetric ==
    call.op = "pauli_commutes" => ret = pauli_commutes(call.Q, call.P)

C12_Witness ==
    /\ call.op = "pauli_commutes"
    /\ call.P = <<"X", "Z", "I">>
    /\ call.Q = <<"Z", "I", "Y">>
    /\ ret = Return(FALSE)

\* C13: pauli_commutes is reflexive: for every Pauli string P,
\* pauli_commutes(P, P) is true; commutes("XYZ","XYZ") is true.
C13_CommutesReflexive ==
    (call.op = "pauli_commutes" /\ call.P = call.Q) => ret = Return(TRUE)

C13_Witness ==
    /\ call.op = "pauli_commutes"
    /\ call.P = <<"X", "Y", "Z">>
    /\ call.Q = <<"X", "Y", "Z">>
    /\ ret = Return(TRUE)

\* The trials of an estimator call c whose n-bit mask, sampled one mask per
\* trial from the draw sequence, has strictly more than n/2 ones.
MajorityTrials(c) ==
    {t \in 1..c.trials :
        2 * Ones(bsc_flip_mask(c.n, c.p, Row(c.draws, c.n, t))) > c.n}

RECURSIVE Binom(_, _)
Binom(n, k) ==
    IF k = 0 \/ k = n THEN 1
    ELSE IF k < 0 \/ k > n THEN 0
    ELSE Binom(n - 1, k - 1) + Binom(n - 1, k)

\* Draws that sample the mask m at p = 1/DrawDen: 0 flips, 1 does not.
DrawsOf(m) == [i \in 1..Len(m) |-> IF m[i] = 1 THEN 0 ELSE 1]

\* The masks of length n and weight k that one trial counts as a logical error.
CountedMasks(n, k) ==
    {m \in BitVecs(n) :
        /\ Ones(m) = k
        /\ repetition_mc_error(n, 1, 1, DrawsOf(m)) = Return([num |-> 1, den |-> 1])}

\* C14: repetition_mc_error(n, p, trials) returns the number of trials whose
\* n-bit flip mask has strictly more than n/2 ones, divided by trials (a tie
\* for even n is no error; the batch gives the per-trial decisions of one
\* mask per trial from the same draws); the masks counted are exactly those
\* of weight k > n/2, C(n,k) of them per such k.
C14_RepetitionCountsMajorities ==
    call.op = "repetition_mc_error" =>
       /\ ret = Return([num |-> Cardinality(MajorityTrials(call)),
                        den |-> call.trials])
       /\ \A k \in 0..call.n :
              Cardinality(CountedMasks(call.n, k)) =
                  (IF 2 * k > call.n THEN Binom(call.n, k) ELSE 0)

C14_Witness ==
    /\ call.op = "repetition_mc_error"
    /\ call.n = 2
    /\ call.p = 1
    /\ call.trials = 2
    /\ call.draws = <<0, 1, 0, 0>>
    /\ ret = Return([num |-> 1, den |-> 2])

\* C15: bitflip_mc_error and phaseflip_mc_error are the same algorithm:
\* sum(residual) > 1 iff decode_majority(residual) == 1, so for every p,
\* every trial count and the same draws the two return the same value.
C15_BitflipEqualsPhaseflip ==
    /\ call.op = "bitflip_mc_error" =>
          ret = phaseflip_mc_error(call.p, call.trials, call.draws)
    /\ call.op = "phaseflip_mc_error" =>
          ret = bitflip_mc_error(call.p, call.trials, call.draws)
    /\ call.op = "decode_majority" =>
          ((ret.val = 1) <=> (Ones(call.word_bits) > 1))

C15_Witness ==
    /\ call.op = "phaseflip_mc_error"
    /\ call.p = 1
    /\ call.trials = 2
    /\ call.draws = <<0, 0, 1, 1, 1, 0>>
    /\ ret = Return([num |-> 1, den |-> 2])

InvalidEstimatorCall ==
    /\ call.op \in Estimators
    /\ \/ call.p < 0
       \/ call.p > DrawDen
       \/ call.trials <= 0
       \/ (call.op = "repetition_mc_error" /\ call.n <= 0)

\* A bsc_flip_mask call with p outside [0,1] or n not positive.
InvalidMaskCall ==
    /\ call.op = "bsc_flip_mask"
    /\ (call.p < 0 \/ call.p > DrawDen \/ call.n <= 0)

\* C17: invalid parameters fail fast with an InvalidParameter error and no
\* partial result: bsc_flip_mask when p is outside [0,1] or n is not
\* positive, each estimator when p is outside [0,1], the qubit count is not
\* positive or the trial count is zero or negative; no rate or mask is
\* returned in those cases.
C17_InvalidParameterFailsFast ==
    (InvalidEstimatorCall \/ InvalidMaskCall) => ret = Raise("InvalidParameter")

\* C18: code.syndrome(error_vector) fails with the shape-mismatch error
\* (numpy's ValueError for a matmul whose dimensions disagree) whenever the
\* vector's length differs from the matrix's column count, 3, and returns no
\* syndrome for such an input, also when called through the decoder; for a
\* correctly shaped vector it does not fail.
C18_ShapeMismatchFails ==
    /\ call.op = "syndrome" =>
          IF Len(call.e_bits) # Len(ThreeQubitBitFlip.checks[1])
          THEN ret = Raise("ValueError")
          ELSE ret.exc = "none" /\ Len(ret.val) = Len(ThreeQubitBitFlip.checks)
    /\ call.op = "lookup_decoder_3q" =>
          IF Len(call.e_bits) # 3
          THEN ret = Raise("ValueError")
          ELSE ret.exc = "none"

C18_Witness ==
    /\ call.op = "syndrome"
    /\ call.e_bits = <<1, 0>>
    /\ ret.exc = "ValueError"
    /\ ret.val = <<>>

TableKeys == {<<0, 0>>, <<1, 0>>, <<1, 1>>, <<0, 1>>}

\* C19: the lookup never misses: for all 8 vectors of {0,1}^3 the computed
\* syndrome is one of the four table keys, so lookup_decoder_3q raises no
\* index/key error, in a direct call or in any trial of bitflip_mc_error or
\* phaseflip_mc_error.
C19_LookupNeverMisses ==
    /\ (call.op = "syndrome" /\ Len(call.e_bits) = 3) =>
          ret.exc = "none" /\ ret.val \in TableKeys /\ ret.val \in DOMAIN lut
    /\ (call.op = "lookup_decoder_3q" /\ Len(call.e_bits) = 3) =>
          ret.exc = "none" /\ ret.val.syn \in TableKeys
    /\ call.op \in {"bitflip_mc_error", "phaseflip_mc_error"} =>
          /\ ret.exc \notin {"KeyError", "IndexError"}
          /\ \A t \in 1..call.trials :
                 lookup_decoder_3q(ThreeQubitBitFlip,
                     bsc_flip_mask(3, call.p, Row(call.draws, 3, t))).exc = "none"

C19_Witness ==
    /\ call.op = "lookup_decoder_3q"
    /\ call.e_bits = <<1, 1, 1>>
    /\ ret = Return([syn |-> <<0, 0>>, corr |-> <<0, 0, 0>>])

\* The nonzero error vectors the two checks do not detect.
Undetectable ==
    {e \in BitVecs(3) :
        /\ Ones(e) > 0
        /\ ThreeQubitBitFlip_syndrome(ThreeQubitBitFlip, e) = Return(<<0, 0>>)}

\* The least weight of a vector of a non-empty set S of 3-bit vectors.
MinWeight(S) ==
    CHOOSE w \in 0..3 : (\E e \in S : Ones(e) = w) /\ (\A e \in S : Ones(e) >= w)

\* C20: the code's distance is 3 and equals the minimum weight of an
\* undetectable error: no nonzero vector of weight 1 or 2 has syndrome (0,0),
\* the weight-3 vector (1,1,1) has syndrome (0,0), and the distance property
\* returns 3.
C20_DistanceThree ==
    /\ (call.op = "syndrome" /\ Len(call.e_bits) = 3
            /\ Ones(call.e_bits) \in {1, 2}) =>
          ret.exc = "none" /\ ret.val # <<0, 0>>
    /\ (call.op = "syndrome" /\ call.e_bits = <<1, 1, 1>>) =>
          ret = Return(<<0, 0>>)
    /\ call.op = "distance" =>
          /\ ret = Return(3)
          /\ Undetectable # {}
          /\ ret.val = MinWeight(Undetectable)

C20_Witness ==
    /\ call.op = "distance"
    /\ ret = Return(3)
    /\ Undetectable = {<<1, 1, 1>>}

\* C21: bsc_flip_mask(n, p) returns a vector of exactly n entries, each 0 or
\* 1, and with batch size k a k x n matrix of such entries; an entry is 1
\* exactly when its own draw from the supplied random source is below p, so
\* with p = 0 every entry is 0 and with p = 1 every entry is 1; nothing but
\* the supplied draws decides an entry.
C21_MaskFollowsDraws ==
    /\ call.op = "bsc_flip_mask" =>
          /\ ret.exc = "none"
          /\ Len(ret.val) = call.n
          /\ \A i \in 1..call.n :
                /\ ret.val[i] \in {0, 1}
                /\ ret.val[i] = 1 <=> call.draws[i] < call.p
                /\ call.p = 0 => ret.val[i] = 0
                /\ call.p = DrawDen => ret.val[i] = 1
    /\ call.op = "bsc_flip_mask_size" =>
          /\ ret.exc = "none"
          /\ Len(ret.val) = call.size
          /\ \A t \in 1..call.size :
                /\ Len(ret.val[t]) = call.n
                /\ \A i \in 1..call.n :
                      /\ ret.val[t][i] \in {0, 1}
                      /\ ret.val[t][i] = 1 <=>
                              call.draws[(t - 1) * call.n + i] < call.p
                      /\ call.p = 0 => ret.val[t][i] = 0
                      /\ call.p = DrawDen => ret.val[t][i] = 1

C21_Witness ==
    /\ call.op = "bsc_flip_mask_size"
    /\ call.n = 3
    /\ call.size = 2
    /\ call.p = 1
    /\ call.draws = <<0, 1, 1, 1, 1, 0>>
    /\ ret = Return(<<(<<1, 0, 0>>), (<<0, 0, 1>>)>>)

\* C22: the syndrome-to-correction table is read-only: after any sequence of
\* lookup_decoder_3q, bitflip_mc_error and phaseflip_mc_error calls, and of
\* caller operations on the (syndrome, correction) values those calls returned
\* (a write into a returned correction vector included), every one of the
\* four syndromes still maps to its original correction vector.  (The other
\* half of the sentence, that lookup_decoder_3q leaves e_bits as passed, is
\* the frame of every action here: none writes call.e_bits.)
C22_TableReadOnly ==
    /\ DOMAIN lut = TableKeys
    /\ \A k \in TableKeys : lut[k] = _BITFLIP_LUT[k]

\* C23: for every e in {0,1}^3 the bit-flip pipeline (syndrome, looked-up
\* correction, residual (e + correction) mod 2, decode_majority) reports a
\* logical error iff e has weight 2 or 3, which is the majority vote of the
\* length-3 repetition code on e itself; hence, fed the same sequence of
\* draws, bitflip_mc_error(p, trials) and repetition_mc_error(3, p, trials)
\* return the same rate (trials >= 1, so that a rate exists).
C23_PipelineIsMajorityVote ==
    /\ call.op = "run_one_shot" =>
          /\ ret.val.decoded_bit = 1 <=> Ones(call.e) \in {2, 3}
          /\ ret.val.decoded_bit = 1 <=> 2 * Sum(call.e) > 3
    /\ (call.op = "bitflip_mc_error" /\ call.trials >= 1) =>
          ret = repetition_mc_error(3, call.p, call.trials, call.draws)
    /\ (call.op = "repetition_mc_error" /\ call.n = 3 /\ call.trials >= 1) =>
          ret = bitflip_mc_error(call.p, call.trials, call.draws)

C23_Witness ==
    /\ call.op = "bitflip_mc_error"
    /\ call.p = 1
    /\ call.trials = 2
    /\ call.draws = <<0, 0, 0, 1, 1, 0>>
    /\ ret = Return([num |-> 1, den |-> 2])
    /\ ret = repetition_mc_error(3, 1, 2, <<0, 0, 0, 1, 1, 0>>)

\* A simulate_repetition call with trials >= 1.
Simulating == call.op = "simulate_repetition" /\ call.trials >= 1

\* What holds at every point of such a call: remaining is never negative,
\* every batch so far had between 1 and 10000 trials, the batches and what
\* remains add up to trials, errs is the sum of the batches' counts, and the
\* value returned is that sum over trials with nothing remaining.
BatchesInOrder ==
    Simulating =>
        /\ call.remaining >= 0
        /\ \A i \in 1..Len(call.sizes) :
              call.sizes[i] >= 1 /\ call.sizes[i] <= BatchCap
        /\ Sum(call.sizes) + call.remaining = call.trials
        /\ Len(call.counts) = Len(call.sizes)
        /\ \A i \in 1..Len(call.counts) :
              call.counts[i] >= 0 /\ call.counts[i] <= call.sizes[i]
        /\ call.errs = Sum(call.counts)
        /\ call.pc = "done" =>
              /\ call.remaining = 0
              /\ Sum(call.sizes) = call.trials
              /\ ret = Return([num |-> Sum(call.counts), den |-> call.trials])

\* A loop iteration of such a call makes remaining strictly smaller.
RemainingDecreases ==
    (Simulating /\ call'.op = "simulate_repetition" /\ Len(call'.sizes) > Len(call.sizes))
        => call'.remaining < call.remaining

\* C24: simulate_repetition(n, p, trials) terminates for every trials >= 1:
\* each loop iteration processes a batch of between 1 and 10000 trials,
\* remaining strictly decreases and never becomes negative, the batch sizes
\* sum to exactly trials, and the result is the total number of logical-error
\* trials over all batches divided by trials.
C24_BatchedSimulationTerminates ==
    /\ []BatchesInOrder
    /\ [][RemainingDecreases]_vars
    /\ (Simulating ~> (Simulating /\ call.pc = "done"))

C24_Witness ==
    /\ call.op = "simulate_repetition"
    /\ call.pc = "done"
    /\ call.n = 3
    /\ call.p = 1
    /\ call.trials = 2 * BatchCap + 1
    /\ call.sizes = <<BatchCap, BatchCap, 1>>
    /\ call.counts = <<1, BatchCap - 1, 1>>
    /\ ret = Return([num |-> BatchCap + 1, den |-> 2 * BatchCap + 1])

====
